---- MODULE Spec2Model ----
(***************************************************************************)
(* Model of the LaForge PR workflow scripts (.gitea/workflows/*.js).       *)
(*                                                                         *)
(* Command Resolver (parse-agent-command.js): every workflow invocation is *)
(* a fresh process; the only state that survives an invocation is the     *)
(* file .pr/agent-config.json and the PR's comment thread on the hosting   *)
(* service.  One action models one whole run of the script.                *)
(*                                                                         *)
(* PR Context Synchronizer (fetch-pr.js, the script of lines 127-372) and  *)
(* Status Publisher: one run each, step by step, in specifications of      *)
(* their own (SpecSync, SpecPublish); SpecParse applies parseAgentCommand  *)
(* to bounded comment bodies.  Each specification leaves the variables of  *)
(* the other components at their initial values.                           *)
(***************************************************************************)
EXTENDS Integers, Sequences, FiniteSets, TLC

VARIABLES
    configFile,   \* content of .pr/agent-config.json
    thread,       \* the PR's conversation comments held by the hosting service
    out,          \* what the latest resolver run emitted, requested and logged
    parse,        \* one application of parseAgentCommand to a comment body
    sync,         \* one run of the synchronizer
    pub,          \* one run of the publisher
    invocations   \* resolver invocations running side by side on one PR

vars == <<configFile, thread, out, parse, sync, pub, invocations>>

resolverVars == <<configFile, thread, out, invocations>>

-----------------------------------------------------------------------------
(* Bounds of the model *)

MaxThread == 2    \* comments posted on the PR

-----------------------------------------------------------------------------
(* JavaScript values *)

Undefined == "undefined"

Truthy(v) == v # Undefined

\* a || b
Or(a, b) == IF Truthy(a) THEN a ELSE b

\* Properties every plain object literal inherits from Object.prototype
\* (restricted to the names that occur in the modelled comments).
ObjectPrototype == [constructor |-> "function Object() { [native code] }"]

-----------------------------------------------------------------------------
(* Constants of parse-agent-command.js *)

AGENT_REGISTRY ==
    [sonnet |-> "claude-sonnet-4-5-20250929",
     opus   |-> "claude-opus-4-5-20251101",
     haiku  |-> "claude-haiku-4-5-20251001"]

DEFAULT_AGENT == "sonnet"

\* The expression AGENT_REGISTRY[name]: an own key, else a property found on
\* the prototype chain of the object literal, else undefined.
RegistryLookup(name) ==
    IF name \in DOMAIN AGENT_REGISTRY THEN AGENT_REGISTRY[name]
    ELSE IF name \in DOMAIN ObjectPrototype THEN ObjectPrototype[name]
    ELSE Undefined

-----------------------------------------------------------------------------
(* Comment bodies: a body is the sequence of its whitespace-separated tokens *)

Commands == {"/agent", "/critique"}

\* identifiers (\w+) that follow a command in the modelled comments: the
\* default agent, another registered agent, an unknown name, and a name that
\* is no key of the registry but a property of Object.prototype
Words == {"sonnet", "haiku", "gpt5", "constructor"}

Users == {"alice"}

\* readings of new Date().toISOString()
Times == {"T1", "T2"}

CommentBodies ==
    {<<"thanks">>}
    \cup {<<c, w>> : c \in Commands, w \in Words}

\* a token the class \w+ matches: the command tokens start with "/"
IsWord(tok) == tok \notin Commands

NoMatch == Undefined

\* commentBody.match(/\/<cmd>\s+(\w+)/): capture group of the leftmost match
Match(commentBody, cmd) ==
    LET hits == {i \in 1..(Len(commentBody) - 1) :
                    commentBody[i] = cmd /\ IsWord(commentBody[i + 1])}
    IN  IF hits = {} THEN NoMatch
        ELSE commentBody[(CHOOSE i \in hits : \A j \in hits : i <= j) + 1]

NoCommand == [type |-> "none", agent |-> Undefined]

\* A parser that tests the /agent match before the /critique match.
parseAgentCommand_agentFirst(commentBody) ==
    LET agentMatch == Match(commentBody, "/agent")
        critiqueMatch == Match(commentBody, "/critique")
    IN  IF agentMatch # NoMatch THEN [type |-> "agent", agent |-> agentMatch]
        ELSE IF critiqueMatch # NoMatch THEN [type |-> "critique", agent |-> critiqueMatch]
        ELSE NoCommand

parseAgentCommand(commentBody) ==
    LET agentMatch == Match(commentBody, "/agent")
        critiqueMatch == Match(commentBody, "/critique")
    IN  IF critiqueMatch # NoMatch THEN [type |-> "critique", agent |-> critiqueMatch]
        ELSE IF agentMatch # NoMatch THEN [type |-> "agent", agent |-> agentMatch]
        ELSE NoCommand

-----------------------------------------------------------------------------
(* Session config store *)

FileAbsent == [kind |-> "absent"]
FileGarbage == [kind |-> "garbage"]        \* content JSON.parse rejects
JsonNull == [isNull |-> TRUE]              \* the JSON text "null"
FileJson(value) == [kind |-> "json", value |-> value]

\* A read whose record for a missing file names another agent.
readAgentConfig_opus(file, now) ==
    IF file.kind = "json" THEN file.value
    ELSE [primary_agent |-> "opus", last_updated |-> now, updated_by |-> "system"]

readAgentConfig(file, now) ==
    IF file.kind = "json" THEN file.value
    ELSE [primary_agent |-> DEFAULT_AGENT, last_updated |-> now, updated_by |-> "system"]

\* A writeAgentConfig that never reaches the disk.
writeAgentConfig_lost(file, config, writeOk) == file

\* fs.writeFileSync either replaces the file or throws; the throw is caught
\* and logged inside writeAgentConfig.
writeAgentConfig(file, config, writeOk) ==
    IF writeOk THEN FileJson(config) ELSE file

-----------------------------------------------------------------------------
(* One run of the resolver *)

NoCommentId == 0     \* COMMENT_ID unset

\* Outcomes of fetchGiteaAPI for the triggering comment:
\*   ok       the comment, as stored
\*   nouser   a JSON object with a body but without a user
\*   nobody   a JSON object without a body (an API error object)
\*   neterr   the request emits 'error': the promise rejects
\*   badjson  the response body is not JSON: JSON.parse throws inside the
\*            'end' listener, outside the promise, as an uncaught exception
Responses == {"ok", "nouser", "nobody", "neterr", "badjson"}

Idle ==
    [ran |-> FALSE, commentId |-> NoCommentId, requests |-> <<>>, resp |-> "none",
     command |-> NoCommand, errors |-> {}, emitted |-> FALSE, exit |-> 0,
     agent_mode |-> Undefined, agent_name |-> Undefined, model_id |-> Undefined]

\* A resolver that, without COMMENT_ID, reads the newest comment of the PR.
RequestedComments_newest(commentId, comments) ==
    IF commentId # NoCommentId THEN <<commentId>>
    ELSE IF comments = <<>> THEN <<>> ELSE <<Len(comments)>>

\* The resolver of post-status.js lines 246-291: it ignores COMMENT_ID, lists
\* the PR's comments and takes the newest one that carries a command.
RequestedComments_scan(commentId, comments) ==
    LET carrying == {i \in DOMAIN comments :
                        parseAgentCommand(comments[i].body) # NoCommand}
    IN  IF carrying # {}
        THEN <<CHOOSE i \in carrying : \A j \in carrying : j <= i>>
        ELSE IF comments = <<>> THEN <<>> ELSE <<Len(comments)>>

\* the comment ids main() asks the hosting API for
RequestedComments(commentId, comments) ==
    IF commentId # NoCommentId THEN <<commentId>> ELSE <<>>

\* A resolver that persists every valid directive.
UpdatesConfig_any(command) == TRUE

\* line 188: only a directive of type "agent" updates the config
UpdatesConfig(command) == command.type = "agent"

\* line 177: the validation of the directive's agent name
IsValidAgent(name) == Truthy(RegistryLookup(name))

\* The body of main(): lines 153-216.  The result carries the three outputs,
\* the config to write (or none), the errors logged and whether the process
\* died on an uncaught exception before setting any output.
resolve(file, commentId, comments, resp, now) ==
    LET config == readAgentConfig(file, now)
        base == [agentMode |-> "primary",
                 agentName |-> config.primary_agent,
                 modelId |-> Or(RegistryLookup(config.primary_agent),
                                RegistryLookup(DEFAULT_AGENT)),
                 command |-> NoCommand, write |-> FALSE, config |-> config,
                 errors |-> {}, crashed |-> FALSE]
        requests == RequestedComments(commentId, comments)
    IN  IF requests = <<>> THEN base
        ELSE IF resp = "badjson" THEN [base EXCEPT !.crashed = TRUE]
        ELSE IF resp \in {"neterr", "nobody"} THEN [base EXCEPT !.errors = {"fetch"}]
        ELSE
            LET comment == comments[requests[1]]
                command == parseAgentCommand(comment.body)
                found == [base EXCEPT !.command = command]
            IN  IF command = NoCommand THEN found
                ELSE IF ~IsValidAgent(command.agent)
                     THEN [found EXCEPT !.errors = {"invalid"}]
                ELSE
                    LET chosen == [found EXCEPT !.agentName = command.agent,
                                                !.modelId = RegistryLookup(command.agent)]
                    IN  IF UpdatesConfig(command)
                        THEN IF resp = "nouser"
                             THEN \* comment.user.login throws after the outputs were chosen
                                  [chosen EXCEPT !.errors = {"fetch"}]
                             ELSE [chosen EXCEPT !.write = TRUE,
                                     !.config = [primary_agent |-> command.agent,
                                                 last_updated |-> now,
                                                 updated_by |-> comment.login]]
                        ELSE IF command.type = "critique"
                             THEN [chosen EXCEPT !.agentMode = "critique"]
                             ELSE chosen

\* main() together with main().catch: config null makes line 155 throw, the
\* promise rejects and the catch handler emits the defaults with exit 0.
main(commentId, resp, now, writeOk) ==
    IF readAgentConfig(configFile, now) = JsonNull
    THEN /\ UNCHANGED <<parse, sync, pub, invocations>>
         /\ out' = [Idle EXCEPT !.ran = TRUE, !.commentId = commentId,
                                !.errors = {"fatal"}, !.emitted = TRUE,
                                !.agent_mode = "primary",
                                !.agent_name = DEFAULT_AGENT,
                                !.model_id = AGENT_REGISTRY[DEFAULT_AGENT]]
         /\ UNCHANGED <<configFile, thread>>
    ELSE
        LET r == resolve(configFile, commentId, thread, resp, now)
            requests == RequestedComments(commentId, thread)
        IN  /\ configFile' = IF r.write /\ ~r.crashed
                             THEN writeAgentConfig(configFile, r.config, writeOk)
                             ELSE configFile
            /\ out' = [ran |-> TRUE, commentId |-> commentId, requests |-> requests,
                       resp |-> IF requests = <<>> THEN "none" ELSE resp,
                       command |-> r.command,
                       errors |-> r.errors \cup
                                  (IF r.write /\ ~writeOk THEN {"write"} ELSE {}),
                       emitted |-> ~r.crashed,
                       exit |-> IF r.crashed THEN 1 ELSE 0,
                       agent_mode |-> IF r.crashed THEN Undefined ELSE r.agentMode,
                       agent_name |-> IF r.crashed THEN Undefined ELSE r.agentName,
                       model_id |-> IF r.crashed THEN Undefined ELSE r.modelId]
            /\ UNCHANGED <<thread, parse, sync, pub, invocations>>

-----------------------------------------------------------------------------
(* Environment and workflow events *)

\* somebody comments on the PR
PostComment ==
    /\ Len(thread) < MaxThread
    /\ \E body \in CommentBodies, login \in Users :
          thread' = Append(thread, [body |-> body, login |-> login])
    /\ UNCHANGED <<configFile, out, parse, sync, pub, invocations>>

\* the workflow runs on a PR event (opened, reopened): no COMMENT_ID
RunOnPrEvent ==
    \E now \in Times :
        main(NoCommentId, "none", now, TRUE)

\* the workflow runs on an issue_comment event for comment commentId
RunOnComment ==
    \E commentId \in DOMAIN thread, resp \in Responses, now \in Times :
        \* the write can only fail in a run that gets as far as writing
        \E writeOk \in (IF resp = "ok" THEN BOOLEAN ELSE {TRUE}) :
            main(commentId, resp, now, writeOk)

\* the variables of the parser, the synchronizer and the publisher before
\* any of them ran
NotParsed == [done |-> FALSE]
NotSynced == [pc |-> "off"]
NotPublished == [pc |-> "off"]
NoInvocations == <<>>

OthersIdle ==
    /\ parse = NotParsed
    /\ sync = NotSynced
    /\ pub = NotPublished
    /\ invocations = NoInvocations

Init ==
    /\ configFile = FileAbsent
    /\ thread = <<>>
    /\ out = Idle
    /\ OthersIdle

Next == PostComment \/ RunOnPrEvent \/ RunOnComment

Spec == Init /\ [][Next]_vars

\* The same runs, started on whatever the repository's .pr directory holds:
\* no file, a file that is not JSON, the JSON text null, or a record left
\* there with any primary agent.
StoredConfigs ==
    {FileAbsent, FileGarbage, FileJson(JsonNull)}
    \cup {FileJson([primary_agent |-> a, last_updated |-> "T1", updated_by |-> "system"]) :
            a \in {"haiku", "gpt5"}}

InitStored ==
    /\ configFile \in StoredConfigs
    /\ thread = <<>>
    /\ out = Idle
    /\ OthersIdle

SpecStored == InitStored /\ [][Next]_vars

-----------------------------------------------------------------------------
(* Vocabulary of the properties *)

RegistryKeys == DOMAIN AGENT_REGISTRY

RegisteredModels == {AGENT_REGISTRY[k] : k \in RegistryKeys}

\* the persisted primary agent: the default agent while no record exists
PrimaryAgentOf(file) == readAgentConfig(file, "T1").primary_agent

\* this step is one run of the resolver (PostComment is the only other step)
IsRun == thread' = thread /\ out'.ran

\* the directive carried by the comment that triggered the run recorded in o
TriggerDirective(o) ==
    IF o.commentId \in DOMAIN thread
    THEN parseAgentCommand(thread[o.commentId].body)
    ELSE NoCommand

\* the run recorded in o read its triggering comment, found the directive
\* /agent n with n registered, and got through to a successful write
PersistedSwitch(o) ==
    /\ o.ran /\ o.command.type = "agent"
    /\ o.command.agent \in RegistryKeys
    /\ o.errors = {}

-----------------------------------------------------------------------------
(* C1 *)

-----------------------------------------------------------------------------
(* C2 *)

\* C2: a run that reads a directive /agent n or /critique n with n no key of
\* the registry leaves the config record unchanged and resolves to the
\* previously persisted primary agent with mode primary.
C2_InvalidNameFallsBack ==
    [][IsRun /\ out'.command # NoCommand /\ out'.command.agent \notin RegistryKeys
       => /\ configFile' = configFile
          /\ out'.agent_name = PrimaryAgentOf(configFile)
          /\ out'.agent_mode = "primary"]_vars

-----------------------------------------------------------------------------
(* C3 *)

\* C3: a run whose triggering comment carries /critique n, n a registry key,
\* leaves the config record identical, whatever the fetch answers.
C3_CritiqueLeavesConfig ==
    [][IsRun /\ TriggerDirective(out').type = "critique"
         /\ TriggerDirective(out').agent \in RegistryKeys
       => configFile' = configFile]_vars

\* a critique run by haiku while the record names sonnet as primary agent
C3_Witness ==
    /\ out.ran /\ out.command = [type |-> "critique", agent |-> "haiku"]
    /\ out.agent_mode = "critique" /\ out.agent_name = "haiku"
    /\ configFile.kind = "json" /\ configFile.value.primary_agent = "sonnet"

-----------------------------------------------------------------------------
(* C4 *)

\* C4: a run emits mode critique exactly when the comment it read carries
\* /critique n with n a registry key, then with agent n and n's registered
\* model id; every other run that emits, emits mode primary.
C4_CritiqueModeExactly ==
    (out.ran /\ out.emitted) =>
        LET isCritique == /\ out.command.type = "critique"
                          /\ out.command.agent \in RegistryKeys
        IN  /\ (out.agent_mode = "critique") <=> isCritique
            /\ isCritique => /\ out.agent_name = out.command.agent
                             /\ out.model_id = AGENT_REGISTRY[out.command.agent]
            /\ ~isCritique => out.agent_mode = "primary"

-----------------------------------------------------------------------------
(* C5 *)

-----------------------------------------------------------------------------
(* C6 *)

-----------------------------------------------------------------------------
(* C7 *)

\* C7: a run in which fetching or reading the triggering comment fails (no
\* response, a response that is not JSON, a response without body, an error
\* raised while the comment is read) does not abort: it logs the error and
\* emits the persisted primary agent with mode primary.
C7_FetchFailureFallsBack ==
    (out.ran /\ (out.resp \in {"neterr", "nobody", "badjson"} \/ "fetch" \in out.errors))
    => /\ out.emitted /\ out.exit = 0
       /\ "fetch" \in out.errors
       /\ out.agent_mode = "primary"
       /\ out.agent_name = PrimaryAgentOf(configFile)

-----------------------------------------------------------------------------
(* C8 *)

\* C8: every run ends with exit code 0 and with its outputs emitted; the
\* emitted agent name is a registry key and the emitted model id a registered
\* model id.
C8_AlwaysUsableOutputs ==
    out.ran => /\ out.exit = 0 /\ out.emitted
               /\ out.agent_name \in RegistryKeys
               /\ out.model_id \in RegisteredModels

-----------------------------------------------------------------------------
(* C9 *)

\* C9: whenever a config record exists, its primary agent is a registry key.
C9_PrimaryAgentIsRegistryKey ==
    configFile.kind = "json" => configFile.value.primary_agent \in RegistryKeys

-----------------------------------------------------------------------------
(* C10 *)

\* C10: the config record changes only in a run that resolves an /agent
\* directive whose target is a registry key.
C10_WrittenOnlyByValidAgentDirective ==
    [][configFile' # configFile
       => /\ IsRun
          /\ out'.command.type = "agent"
          /\ out'.command.agent \in RegistryKeys]_vars

-----------------------------------------------------------------------------
(* parseAgentCommand on arbitrary bodies *)

MaxBodyLen == 4    \* tokens of a comment body

ParseTokens == Commands \cup {"haiku", "gpt5"}

ParseBodies ==
    UNION {[1..n -> ParseTokens] : n \in 0..MaxBodyLen}

\* command = parseAgentCommand(comment.body), main line 178
ParseComment ==
    /\ ~parse.done
    /\ parse' = [parse EXCEPT !.done = TRUE,
                              !.command = parseAgentCommand(parse.body)]
    /\ UNCHANGED <<resolverVars, sync, pub>>

InitParse ==
    /\ configFile = FileAbsent
    /\ thread = <<>>
    /\ out = Idle
    /\ invocations = NoInvocations
    /\ sync = NotSynced
    /\ pub = NotPublished
    /\ \E body \in ParseBodies :
          parse = [done |-> FALSE, body |-> body, command |-> NoCommand]

NextParse == ParseComment

SpecParse == InitParse /\ [][NextParse]_vars

\* positions of the body where cmd is followed by a name
DirectivesIn(body, cmd) ==
    {i \in 1..(Len(body) - 1) : body[i] = cmd /\ body[i + 1] \notin Commands}

-----------------------------------------------------------------------------
(* C11 *)

\* C11: a parsed body yields one command, of type none, agent or critique;
\* when the body holds both a /critique <name> and an /agent <name>
\* directive, in either order, the command is the critique one and its
\* agent is a name that follows /critique in the body.
C11_CritiqueWinsOverAgent ==
    parse.done =>
        /\ parse.command.type \in {"none", "agent", "critique"}
        /\ (DirectivesIn(parse.body, "/critique") # {}
                /\ DirectivesIn(parse.body, "/agent") # {})
            => /\ parse.command.type = "critique"
               /\ \E i \in DirectivesIn(parse.body, "/critique") :
                     parse.command.agent = parse.body[i + 1]

\* the /agent directive comes first in the body and critique is recognized
C11_Witness ==
    /\ parse.done
    /\ parse.body = <<"/agent", "haiku", "/critique", "gpt5">>
    /\ parse.command = [type |-> "critique", agent |-> "gpt5"]

-----------------------------------------------------------------------------
(* C12 *)

\* C12, as stated: once the resolver has run, a config record exists and its
\* primary agent is a key of the registry.
C12_RecordExistsAfterFirstRun ==
    out.ran =>
        /\ configFile.kind = "json"
        /\ configFile.value.primary_agent \in RegistryKeys

\* C12, amended: reading a missing config file yields an in-memory record
\* whose primary agent is the default agent, and nothing is written for it:
\* a run that finds no directive resolves to the default agent with mode
\* primary and the file is still missing afterwards; a file only exists once
\* a comment with an /agent directive was posted.
C12_MissingRecordReadsAsDefault ==
    /\ (out.ran /\ configFile = FileAbsent /\ out.emitted /\ out.command = NoCommand
            => /\ out.agent_name = DEFAULT_AGENT
               /\ out.agent_mode = "primary"
               /\ out.model_id = AGENT_REGISTRY[DEFAULT_AGENT])
    /\ (configFile # FileAbsent
            => \E i \in DOMAIN thread :
                  parseAgentCommand(thread[i].body).type = "agent")

\* a first run on a PR event resolved to the default agent and left no file
C12_Witness ==
    /\ out.ran /\ out.emitted /\ out.commentId = NoCommentId
    /\ thread = <<>>
    /\ configFile = FileAbsent
    /\ out.agent_name = DEFAULT_AGENT

-----------------------------------------------------------------------------
(* PR Context Synchronizer: fetch-pr.js, lines 127-372 *)

MaxReviews == 2    \* reviews of the PR in the documents without attachments
MaxLinks == 2      \* image links in the PR description

\* A text is the sequence of its markdown image links ![alt](url); a url is
\* the pair <<everything up to and including the last "/", basename>>.
AttachmentPrefix == "/attachments/"
LocalPrefix == ".pr/attachments/"

Link(alt, dir, name) == [alt |-> alt, url |-> <<dir, name>>]

\* path.basename(url)
basename(url) == url[2]

Screenshot1 == Link("screenshot", AttachmentPrefix, "abc123")
Screenshot2 == Link("screenshot", AttachmentPrefix, "def456")
Unnamed1 == Link("", AttachmentPrefix, "abc123")
External == Link("logo", "https://example.org/", "logo.png")

Links == {Screenshot1, Screenshot2, Unnamed1, External}

Texts == UNION {[1..n -> Links] : n \in 0..MaxLinks}

\* names a file of the cache directory can get from the links above
Filenames == {"screenshot", "abc123", "def456"}

NoFile == "ENOENT"

EmptyCache == [fn \in Filenames |-> NoFile]

\* The PR on the hosting service: description, conversation comments and
\* reviews in the order the API lists them; inline is what the
\* reviews/<id>/comments endpoint lists for the review.
Comment(id, body) == [id |-> id, body |-> body]

OrderingDocs ==
    {[body |-> <<>>,
      comments |-> <<Comment(1, <<>>), Comment(2, <<>>)>>,
      reviews |-> [i \in 1..n |->
                     [id |-> i, body |-> <<>>,
                      inline |-> <<Comment(10 * i + 1, <<>>),
                                   Comment(10 * i + 2, <<>>)>>]]] :
        n \in 0..MaxReviews}

AttachmentDocs ==
    {[body |-> description,
      comments |-> <<Comment(1, commentBody)>>,
      reviews |-> <<[id |-> 1, body |-> <<External>>,
                     inline |-> <<Comment(11, <<>>)>>]>>] :
        description \in Texts, commentBody \in {<<>>, <<Screenshot1>>}}

Docs == OrderingDocs \cup AttachmentDocs

\* fetchGiteaAPI, lines 155-187: the promise resolves with the parsed body
\* whatever the status code is ("ok": the resource, "errobj": the JSON
\* object of an error response), rejects on a request error ("neterr"), and
\* a body that is not JSON makes JSON.parse throw inside the 'end' listener
\* ("badjson"), an uncaught exception that ends the process.
FetchOutcomes == {"ok", "errobj", "neterr", "badjson"}

\* the awaiting main() does not get past this fetch
Aborts(resp) == resp \in {"neterr", "badjson"}

\* A main() that takes whatever a fetch returned for a list.
IsArray_any(resp) == TRUE

\* reviews.map, for (const c of comments) and Array.isArray work on what a
\* successful fetch returns; on an error object the first two throw TypeError
IsArray(resp) == resp = "ok"

\* A file name that is always the basename of the url.
Filename_basename(altText, url) == basename(url)

\* filename: altText || path.basename(url), line 257
Filename(altText, url) == IF altText # "" THEN altText ELSE basename(url)

\* An extraction with one entry per distinct url of the text.
extractAttachments_unique(text) ==
    LET matches == [p \in 1..Len(text) |->
                      [altText |-> text[p].alt, url |-> text[p].url,
                       filename |-> Filename(text[p].alt, text[p].url),
                       pos |-> p]]
    IN  SelectSeq(matches,
                  LAMBDA m : /\ m.url[1] = AttachmentPrefix
                             /\ \A q \in 1..(m.pos - 1) : text[q].url # m.url)

\* one entry per match of the image syntax whose url starts with
\* /attachments/, in the order of the text; pos is the index of the match
extractAttachments(text) ==
    LET matches == [p \in 1..Len(text) |->
                      [altText |-> text[p].alt, url |-> text[p].url,
                       filename |-> Filename(text[p].alt, text[p].url),
                       pos |-> p]]
    IN  SelectSeq(matches, LAMBDA m : m.url[1] = AttachmentPrefix)

\* downloadAttachment, lines 189-239, as its effect on the cache directory:
\* "ok" the stream finished, "rejected" the status was not 200 or the
\* request failed, "streamerr" the write stream failed and its handler
\* unlinked localPath.
DownloadOutcomes == {"ok", "rejected", "streamerr"}

downloadAttachment(cache, url, filename, outcome) ==
    IF outcome = "ok" THEN [cache EXCEPT ![filename] = basename(url)]
    ELSE IF outcome = "streamerr" THEN [cache EXCEPT ![filename] = NoFile]
    ELSE cache

\* processedText.replace(oldLink, newLink) with a string pattern: the first
\* occurrence only
replace(text, oldLink, newLink) ==
    LET hits == {p \in DOMAIN text : text[p] = oldLink}
    IN  IF hits = {} THEN text
        ELSE [text EXCEPT ![CHOOSE p \in hits : \A q \in hits : p <= q] = newLink]

\* A batch whose results come in the order the fetches completed.
PromiseAll_settled(reviews, fetch, order) ==
    [p \in 1..Len(order) |->
        [id |-> reviews[order[p]].id, body |-> reviews[order[p]].body,
         comments |-> IF fetch[order[p]] = "ok" THEN reviews[order[p]].inline
                      ELSE <<>>]]

\* Promise.all(reviews.map(...)), lines 314-329: the results in the order of
\* reviews; a fetch that rejected or returned no array gives comments: []
PromiseAll(reviews, fetch, order) ==
    [i \in 1..Len(reviews) |->
        [id |-> reviews[i].id, body |-> reviews[i].body,
         comments |-> IF fetch[i] = "ok" THEN reviews[i].inline ELSE <<>>]]

\* The text fields in the order main() passes them to processAttachments
Field(kind, i, j, text) == [kind |-> kind, i |-> i, j |-> j, text |-> text]

RECURSIVE ReviewFields(_, _)
ReviewFields(reviews, i) ==
    IF i > Len(reviews) THEN <<>>
    ELSE (IF reviews[i].body # <<>>
          THEN <<Field("review", i, 0, reviews[i].body)>> ELSE <<>>)
         \o [j \in 1..Len(reviews[i].comments) |->
                Field("inline", i, j, reviews[i].comments[j].body)]
         \o ReviewFields(reviews, i + 1)

FieldsOf(description, comments, reviews) ==
    <<Field("description", 0, 0, description)>>
    \o [i \in 1..Len(comments) |-> Field("comment", i, 0, comments[i].body)]
    \o ReviewFields(reviews, 1)

\* every attachment of every field, in the order processAttachments gets to it
RECURSIVE Occurrences(_, _)
Occurrences(fields, f) ==
    IF f > Len(fields) THEN <<>>
    ELSE [a \in 1..Len(extractAttachments(fields[f].text)) |->
             [field |-> f, att |-> extractAttachments(fields[f].text)[a]]]
         \o Occurrences(fields, f + 1)

TextAt(fields, kind, i, j) ==
    LET f == CHOOSE f \in DOMAIN fields :
                 fields[f].kind = kind /\ fields[f].i = i /\ fields[f].j = j
    IN  fields[f].text

NoSnapshot == [written |-> FALSE]

\* the content of .pr/history.md, lines 331-369
Snapshot(fields, comments, reviews) ==
    [written |-> TRUE,
     description |-> TextAt(fields, "description", 0, 0),
     comments |-> [i \in 1..Len(comments) |->
                     Comment(comments[i].id, TextAt(fields, "comment", i, 0))],
     reviews |-> [i \in 1..Len(reviews) |->
                    [id |-> reviews[i].id,
                     body |-> IF reviews[i].body # <<>>
                              THEN TextAt(fields, "review", i, 0) ELSE <<>>,
                     comments |-> [j \in 1..Len(reviews[i].comments) |->
                                     Comment(reviews[i].comments[j].id,
                                             TextAt(fields, "inline", i, j))]]]]

SyncStart(doc) ==
    [pc |-> "start", doc |-> doc,
     ctx |-> [pr |-> "none", comments |-> "none", reviews |-> "none"],
     pending |-> {}, fetch |-> [i \in 1..Len(doc.reviews) |-> "none"],
     order |-> <<>>, reviews |-> <<>>,
     input |-> <<>>, fields |-> <<>>, downloads |-> <<>>,
     cache |-> EmptyCache, snapshot |-> NoSnapshot, exit |-> 0]

\* an unhandled rejection of main() or an uncaught exception: exit code 1
Die(s) == [s EXCEPT !.pc = "dead", !.exit = 1]

\* lines 306-315: the three awaited fetches and the start of the batch
FetchContext ==
    /\ sync.pc = "start"
    /\ \E prResp \in FetchOutcomes, commentsResp \in FetchOutcomes,
          reviewsResp \in FetchOutcomes :
          LET ctx == [pr |-> prResp,
                      comments |-> IF Aborts(prResp) THEN "none" ELSE commentsResp,
                      reviews |-> IF Aborts(prResp) \/ Aborts(commentsResp)
                                  THEN "none" ELSE reviewsResp]
              s == [sync EXCEPT !.ctx = ctx]
          IN  sync' = IF Aborts(prResp) \/ Aborts(commentsResp) \/ Aborts(reviewsResp)
                         \/ ~IsArray(reviewsResp)
                      THEN Die(s)
                      ELSE [s EXCEPT !.pc = "batch",
                                     !.pending = DOMAIN sync.doc.reviews]
    /\ UNCHANGED <<resolverVars, parse, pub>>

\* lines 316-327: the fetch of one review's inline comments completes
ReviewFetchCompletes ==
    /\ sync.pc = "batch"
    /\ \E i \in sync.pending, resp \in FetchOutcomes :
          LET s == [sync EXCEPT !.fetch[i] = resp,
                                !.pending = sync.pending \ {i},
                                !.order = Append(sync.order, i)]
          IN  sync' = IF resp = "badjson" THEN Die(s) ELSE s
    /\ UNCHANGED <<resolverVars, parse, pub>>

\* lines 314 and 331-338: Promise.all resolves, the header is formatted
\* (pr.user.login) and the fields to process are fixed; a comment list that
\* is no array stops main() after the description was processed
FormatHeader ==
    /\ sync.pc = "batch" /\ sync.pending = {}
    /\ LET reviews == PromiseAll(sync.doc.reviews, sync.fetch, sync.order)
           fields == IF IsArray(sync.ctx.comments)
                     THEN FieldsOf(sync.doc.body, sync.doc.comments, reviews)
                     ELSE FieldsOf(sync.doc.body, <<>>, <<>>)
       IN  sync' = IF sync.ctx.pr # "ok" THEN Die(sync)
                   ELSE [sync EXCEPT !.pc = "attachments", !.reviews = reviews,
                                     !.input = fields, !.fields = fields]
    /\ UNCHANGED <<resolverVars, parse, pub>>

\* lines 278-292: one turn of the loop of processAttachments
DownloadAttachment ==
    /\ sync.pc = "attachments"
    /\ Len(sync.downloads) < Len(Occurrences(sync.input, 1))
    /\ \E outcome \in DownloadOutcomes :
          LET occ == Occurrences(sync.input, 1)[Len(sync.downloads) + 1]
              att == occ.att
              oldLink == [alt |-> att.altText, url |-> att.url]
              newLink == [alt |-> att.altText, url |-> <<LocalPrefix, att.filename>>]
          IN  sync' = [sync EXCEPT
                  !.cache = downloadAttachment(sync.cache, att.url, att.filename, outcome),
                  !.fields[occ.field].text =
                      IF outcome = "ok" THEN replace(@, oldLink, newLink) ELSE @,
                  !.downloads = Append(@, [field |-> occ.field, pos |-> att.pos,
                                           altText |-> att.altText, url |-> att.url,
                                           filename |-> att.filename,
                                           outcome |-> outcome])]
    /\ UNCHANGED <<resolverVars, parse, pub>>

\* lines 340-369: the loops over comments and reviews, then writeFileSync
WriteSnapshot ==
    /\ sync.pc = "attachments"
    /\ Len(sync.downloads) = Len(Occurrences(sync.input, 1))
    /\ sync' = IF ~IsArray(sync.ctx.comments) THEN Die(sync)
               ELSE [sync EXCEPT !.pc = "done",
                        !.snapshot = Snapshot(sync.fields, sync.doc.comments,
                                              sync.reviews)]
    /\ UNCHANGED <<resolverVars, parse, pub>>

InitSync ==
    /\ configFile = FileAbsent
    /\ thread = <<>>
    /\ out = Idle
    /\ invocations = NoInvocations
    /\ parse = NotParsed
    /\ pub = NotPublished
    /\ \E doc \in Docs : sync = SyncStart(doc)

NextSync ==
    \/ FetchContext
    \/ ReviewFetchCompletes
    \/ FormatHeader
    \/ DownloadAttachment
    \/ WriteSnapshot

SpecSync == InitSync /\ [][NextSync]_vars

-----------------------------------------------------------------------------
(* C13 *)

\* one of the three fetches of the PR, its comment list and its review list
\* met a request error, an error response or a body that is no JSON
ContextFetchFailed ==
    \E resp \in {sync.ctx.pr, sync.ctx.comments, sync.ctx.reviews} :
        resp \in {"neterr", "errobj", "badjson"}

\* C13: once the fetch of the PR metadata, of the comment list or of the
\* review list has failed, no snapshot is ever written, the run never
\* completes, it keeps a step to take until it is dead, and it dies with a
\* non-zero exit code.
C13_ContextFailureAborts ==
    ContextFetchFailed =>
        /\ sync.snapshot = NoSnapshot
        /\ sync.pc # "done"
        /\ (sync.pc = "dead" => sync.exit # 0)
        /\ (sync.pc # "dead" => ENABLED NextSync)

\* the comment list came back as an error object: the run died after it had
\* downloaded an attachment of the description, without a snapshot
C13_Witness ==
    /\ sync.pc = "dead" /\ sync.exit = 1
    /\ sync.ctx = [pr |-> "ok", comments |-> "errobj", reviews |-> "ok"]
    /\ Len(sync.downloads) > 0
    /\ sync.snapshot = NoSnapshot

-----------------------------------------------------------------------------
(* C14 *)

\* the fetch of review i's inline comments failed
InlineFetchFailed(i) == sync.fetch[i] \in {"neterr", "errobj", "badjson"}

\* C14: when the three fetches of the context succeeded, the run does not
\* die, whatever the fetches of the inline comments do; and in the snapshot
\* a review whose fetch failed has no inline comments while every other
\* review has the inline comments the API listed for it.
C14_InlineFailureDegrades ==
    (sync.ctx.pr = "ok" /\ sync.ctx.comments = "ok" /\ sync.ctx.reviews = "ok")
    => /\ sync.pc # "dead"
       /\ sync.pc = "done" =>
            /\ sync.snapshot.written
            /\ \A i \in DOMAIN sync.doc.reviews :
                  [j \in DOMAIN sync.snapshot.reviews[i].comments |->
                      sync.snapshot.reviews[i].comments[j].id]
                  = IF InlineFetchFailed(i) THEN <<>>
                    ELSE [j \in DOMAIN sync.doc.reviews[i].inline |->
                             sync.doc.reviews[i].inline[j].id]

-----------------------------------------------------------------------------
(* C15 *)

Ids(list) == [i \in DOMAIN list |-> list[i].id]

\* C15: the fetches of the inline comments are all in flight once the review
\* list is fetched, and whatever the order they complete in, the snapshot
\* lists the conversation comments and the reviews in the order of the API,
\* and under each review the inline comments fetched for that review, in
\* the order of the API.
C15_SnapshotKeepsApiOrder ==
    /\ (sync.pc = "batch" /\ sync.order = <<>>
            => sync.pending = DOMAIN sync.doc.reviews)
    /\ (sync.pc = "done"
            => /\ Ids(sync.snapshot.comments) = Ids(sync.doc.comments)
               /\ Ids(sync.snapshot.reviews) = Ids(sync.doc.reviews)
               /\ \A i \in DOMAIN sync.doc.reviews :
                     sync.fetch[i] = "ok"
                     => Ids(sync.snapshot.reviews[i].comments)
                            = Ids(sync.doc.reviews[i].inline))

\* the fetch for the second review completed before the one for the first,
\* and the snapshot lists both reviews with their own inline comments
C15_Witness ==
    /\ sync.pc = "done"
    /\ sync.order = <<2, 1>>
    /\ sync.fetch = <<"ok", "ok">>
    /\ Ids(sync.snapshot.reviews) = <<1, 2>>
    /\ Ids(sync.snapshot.reviews[2].comments) = <<21, 22>>

-----------------------------------------------------------------------------
(* C16 *)

\* the link at the place of download d in the finished text of its field
LinkAfter(d) == sync.fields[d.field].text[d.pos]

\* C16: in a finished run every attachment link of every field was tried;
\* a link whose download succeeded stands in the snapshot with its alt text
\* and the path of a file that exists in the cache directory, and a link
\* whose download failed stands there as it was.
C16_RewrittenIffDownloaded ==
    sync.pc = "done" =>
        /\ Len(sync.downloads) = Len(Occurrences(sync.input, 1))
        /\ \A t \in DOMAIN sync.downloads :
              LET d == sync.downloads[t]
              IN  IF d.outcome = "ok"
                  THEN /\ LinkAfter(d).alt = d.altText
                       /\ LinkAfter(d).url[1] = LocalPrefix
                       /\ sync.cache[LinkAfter(d).url[2]] # NoFile
                  ELSE LinkAfter(d) = [alt |-> d.altText, url |-> d.url]

-----------------------------------------------------------------------------
(* C17 *)

\* the places <<field, position>> of the attachment links in the fields of
\* the run, as they came from the API
AttachmentPlaces ==
    UNION {{<<f, p>> : p \in {q \in DOMAIN sync.input[f].text :
                                sync.input[f].text[q].url[1] = AttachmentPrefix}} :
           f \in DOMAIN sync.input}

UrlAt(place) == sync.input[place[1]].text[place[2]].url

\* the places where a link to url stands
PlacesOf(url) == {place \in AttachmentPlaces : UrlAt(place) = url}

\* download requests made for url
RequestsFor(url) == {t \in DOMAIN sync.downloads : sync.downloads[t].url = url}

\* C17, as stated: in a finished run every attachment resource that is
\* linked in some field was requested exactly once.
C17_EachResourceRequestedOnce ==
    sync.pc = "done" =>
        \A place \in AttachmentPlaces :
            Cardinality(RequestsFor(UrlAt(place))) = 1

\* C17, amended: in a finished run every occurrence of an attachment link
\* caused exactly one download request: a resource is requested as many
\* times as links to it stand in the fields of the snapshot, and nothing
\* else is requested.
C17_OneRequestPerOccurrence ==
    sync.pc = "done" =>
        /\ Len(sync.downloads) = Cardinality(AttachmentPlaces)
        /\ \A t \in DOMAIN sync.downloads :
              sync.downloads[t].url[1] = AttachmentPrefix
        /\ \A place \in AttachmentPlaces :
              Cardinality(RequestsFor(UrlAt(place)))
                  = Cardinality(PlacesOf(UrlAt(place)))

\* the same link stands twice in the description and once in a comment, and
\* its resource was requested three times
C17_Witness ==
    /\ sync.pc = "done"
    /\ sync.doc.body = <<Screenshot1, Screenshot1>>
    /\ sync.doc.comments[1].body = <<Screenshot1>>
    /\ Cardinality(RequestsFor(Screenshot1.url)) = 3

-----------------------------------------------------------------------------
(* C18 *)

\* the download made last
LastDownload == sync.downloads[Len(sync.downloads)]

\* C18, as stated: after a successful download of a link with non-empty alt
\* text, the field holds the link with that alt text and the local path
\* ending in the basename of its url, and the cache holds a file of that
\* name.
C18_RewrittenToUrlBasename ==
    (sync.pc \in {"attachments", "done"} /\ sync.downloads # <<>>
        /\ LastDownload.outcome = "ok" /\ LastDownload.altText # "")
    => /\ \E p \in DOMAIN sync.fields[LastDownload.field].text :
             sync.fields[LastDownload.field].text[p]
                 = [alt |-> LastDownload.altText,
                    url |-> <<LocalPrefix, basename(LastDownload.url)>>]
       /\ sync.cache[basename(LastDownload.url)] # NoFile

\* C18, amended: after a successful download of an attachment link the cache
\* holds the resource under the link's alt text, or under the basename of
\* its url when the alt text is empty, and the field holds the link with
\* its alt text and the local path ending in that file name.
C18_RewrittenToDisplayName ==
    (sync.pc \in {"attachments", "done"} /\ sync.downloads # <<>>
        /\ LastDownload.outcome = "ok")
    => LET name == IF LastDownload.altText # "" THEN LastDownload.altText
                   ELSE basename(LastDownload.url)
       IN  /\ \E p \in DOMAIN sync.fields[LastDownload.field].text :
                 sync.fields[LastDownload.field].text[p]
                     = [alt |-> LastDownload.altText,
                        url |-> <<LocalPrefix, name>>]
           /\ sync.cache[name] = basename(LastDownload.url)

\* the description ![screenshot](/attachments/abc123) was downloaded and
\* the snapshot holds ![screenshot](.pr/attachments/screenshot)
C18_Witness ==
    /\ sync.pc = "done"
    /\ sync.doc.body = <<Screenshot1>>
    /\ sync.doc.comments[1].body = <<>>
    /\ LastDownload.outcome = "ok"
    /\ sync.snapshot.description = <<Link("screenshot", LocalPrefix, "screenshot")>>
    /\ sync.cache = [EmptyCache EXCEPT !["screenshot"] = "abc123"]

-----------------------------------------------------------------------------
(* C19 *)

\* the downloads of the run that went to the file name
WritesTo(name) == {t \in DOMAIN sync.downloads : sync.downloads[t].filename = name}

\* C19: in a finished run, a file name that two different attachment
\* resources were stored under names one file of the cache, and its content
\* is the resource of the attachment processed last under that name.
C19_LastWriteWins ==
    sync.pc = "done" =>
        \A name \in Filenames :
            (\E t1 \in WritesTo(name), t2 \in WritesTo(name) :
                sync.downloads[t1].url # sync.downloads[t2].url)
            => LET last == CHOOSE t \in WritesTo(name) :
                               \A u \in WritesTo(name) : u <= t
               IN  sync.cache[name] = basename(sync.downloads[last].url)

-----------------------------------------------------------------------------
(* Status Publisher.  post-status.js, lines 1-95, posts the text of        *)
(* .pr/status.md as one PR comment; the structured artifact                *)
(* .pr/status.yaml (status, file_comments, unassign) is described in the   *)
(* agent prompt, and its publisher is modelled from the specification.     *)

MaxFileComments == 3    \* entries of file_comments
MaxRuns == 2            \* runs of the publisher on one artifact

NoLine == 0             \* a file comment without line

FileComment(file, line, comment) ==
    [file |-> file, line |-> line, comment |-> comment]

FileComments ==
    {FileComment("src/api/users.ts", 23, "admin or user auth?"),
     FileComment("README.md", 40, "see the fixture"),
     FileComment("src/api/users.ts", NoLine, "admin or user auth?")}

\* A validation that only asks for the file.
IsValidFileComment_fileOnly(fc) == fc.file # ""

\* all three fields non-empty
IsValidFileComment(fc) == fc.file # "" /\ fc.line # NoLine /\ fc.comment # ""

NoArtifact == [kind |-> "missing"]
Malformed == [kind |-> "malformed"]

\* .pr/status.md: free text
LegacyStatus ==
    [kind |-> "md", status |-> "done", file_comments |-> <<>>, unassign |-> FALSE]

\* .pr/status.yaml
Structured(status, file_comments, unassign) ==
    [kind |-> "yaml", status |-> status, file_comments |-> file_comments,
     unassign |-> unassign]

Artifacts ==
    {NoArtifact, Malformed, LegacyStatus}
    \cup {Structured(status, fcs, unassign) :
            status \in {"", "done"},
            fcs \in UNION {[1..n -> FileComments] : n \in 0..MaxFileComments},
            unassign \in BOOLEAN}

\* A publisher that clears the assignees first and posts the status last.
Plan_unassignFirst(artifact) ==
    (IF artifact.unassign THEN <<[op |-> "unassign", i |-> 0]>> ELSE <<>>)
    \o [i \in 1..Len(artifact.file_comments) |-> [op |-> "file_comment", i |-> i]]
    \o (IF artifact.status # "" THEN <<[op |-> "status", i |-> 0]>> ELSE <<>>)

\* A publisher that posts the status again ahead of every file comment.
Plan_statusPerFileComment(artifact) ==
    (IF artifact.status # "" THEN <<[op |-> "status", i |-> 0]>> ELSE <<>>)
    \o [n \in 1..(2 * Len(artifact.file_comments)) |->
           IF n % 2 = 1 THEN [op |-> "status", i |-> 0]
           ELSE [op |-> "file_comment", i |-> n \div 2]]
    \o (IF artifact.unassign THEN <<[op |-> "unassign", i |-> 0]>> ELSE <<>>)

\* the side effects of one run, in their order: the status comment if there
\* is status text, every file comment, the unassignment if asked for
Plan(artifact) ==
    (IF artifact.status # "" THEN <<[op |-> "status", i |-> 0]>> ELSE <<>>)
    \o [i \in 1..Len(artifact.file_comments) |-> [op |-> "file_comment", i |-> i]]
    \o (IF artifact.unassign THEN <<[op |-> "unassign", i |-> 0]>> ELSE <<>>)

\* What earlier runs left on the PR: status comments, inline comments, and
\* the submissions of inline comments the hosting service refused.
NothingPublished == [comments |-> 0, inline |-> 0, refused |-> 0]

\* calls(op, ok): how many calls of kind op with outcome ok the list holds
CountCalls(calls, op, ok) ==
    Cardinality({c \in DOMAIN calls : calls[c].op = op /\ calls[c].ok = ok})

PublishStart(artifact) ==
    [pc |-> "start", artifact |-> artifact, k |-> 0, calls |-> <<>>,
     warnings |-> {}, errors |-> {}, posted |-> FALSE, statusBody |-> "",
     exit |-> 0, run |-> 1, remote |-> NothingPublished]

\* the next step of the plan is op
NextOp(op) ==
    /\ pub.pc = "steps"
    /\ pub.k < Len(Plan(pub.artifact))
    /\ Plan(pub.artifact)[pub.k + 1].op = op

\* lines 68-74: without a status file nothing is posted
ReadArtifact ==
    /\ pub.pc = "start"
    /\ pub' = IF pub.artifact = NoArtifact
              THEN [pub EXCEPT !.pc = "done"]
              ELSE [pub EXCEPT !.pc = "parse"]
    /\ UNCHANGED <<resolverVars, parse, sync>>

\* A publisher that takes a malformed artifact for an empty one.
ParseArtifact_lenient ==
    /\ pub.pc = "parse"
    /\ pub' = IF pub.artifact = Malformed
              THEN [pub EXCEPT !.pc = "done"]
              ELSE [pub EXCEPT !.pc = "steps"]
    /\ UNCHANGED <<resolverVars, parse, sync>>

\* a malformed artifact is a fatal error of the publisher
ParseArtifact ==
    /\ pub.pc = "parse"
    /\ pub' = IF pub.artifact = Malformed
              THEN [pub EXCEPT !.pc = "dead", !.exit = 1, !.errors = {"parse"}]
              ELSE [pub EXCEPT !.pc = "steps"]
    /\ UNCHANGED <<resolverVars, parse, sync>>

\* A publisher that reports the status as posted without posting it.
PostStatus_silent ==
    /\ NextOp("status")
    /\ pub' = [pub EXCEPT !.k = @ + 1, !.posted = TRUE]
    /\ UNCHANGED <<resolverVars, parse, sync>>

\* A publisher that posts the status only on a PR without status comment.
PostStatus_once ==
    /\ NextOp("status")
    /\ \E ok \in BOOLEAN :
          LET s == [pub EXCEPT !.calls = Append(@, [op |-> "comment", i |-> 0, ok |-> ok])]
          IN  pub' = IF pub.remote.comments > 0
                     THEN [pub EXCEPT !.k = @ + 1, !.posted = TRUE]
                     ELSE IF ok THEN [s EXCEPT !.k = @ + 1, !.posted = TRUE,
                                               !.statusBody = pub.artifact.status]
                     ELSE [s EXCEPT !.pc = "dead", !.exit = 1, !.errors = {"status"}]
    /\ UNCHANGED <<resolverVars, parse, sync>>

\* A publisher for which the status comment is one more best-effort item.
PostStatus_bestEffort ==
    /\ NextOp("status")
    /\ \E ok \in BOOLEAN :
          pub' = [pub EXCEPT
              !.k = @ + 1, !.posted = TRUE,
              !.calls = Append(@, [op |-> "comment", i |-> 0, ok |-> ok]),
              !.errors = IF ok THEN @ ELSE @ \cup {"status"}]
    /\ UNCHANGED <<resolverVars, parse, sync>>

\* lines 84-94: postGiteaAPI rejects on a request error and on a status
\* outside 2xx; main().catch logs and exits with 1
PostStatus ==
    /\ NextOp("status")
    /\ \E ok \in BOOLEAN :
          LET s == [pub EXCEPT !.calls = Append(@, [op |-> "comment", i |-> 0, ok |-> ok])]
          IN  pub' = IF ok THEN [s EXCEPT !.k = @ + 1, !.posted = TRUE,
                                          !.statusBody = pub.artifact.status]
                     ELSE [s EXCEPT !.pc = "dead", !.exit = 1, !.errors = {"status"}]
    /\ UNCHANGED <<resolverVars, parse, sync>>

\* A publisher that gives up at the first refused file comment.
SubmitFileComment_fatal ==
    /\ NextOp("file_comment")
    /\ LET i == Plan(pub.artifact)[pub.k + 1].i
       IN  IF ~IsValidFileComment(pub.artifact.file_comments[i])
           THEN pub' = [pub EXCEPT !.k = @ + 1, !.warnings = @ \cup {i}]
           ELSE \E ok \in BOOLEAN :
                   LET s == [pub EXCEPT
                               !.calls = Append(@, [op |-> "inline", i |-> i, ok |-> ok])]
                   IN  pub' = IF ok THEN [s EXCEPT !.k = @ + 1]
                              ELSE [s EXCEPT !.pc = "dead", !.exit = 1,
                                             !.errors = {"file_comment"}]
    /\ UNCHANGED <<resolverVars, parse, sync>>

\* one entry of file_comments: discarded with a warning when a field is
\* missing, else submitted as an inline review comment; a failure is logged
SubmitFileComment ==
    /\ NextOp("file_comment")
    /\ LET i == Plan(pub.artifact)[pub.k + 1].i
       IN  IF ~IsValidFileComment(pub.artifact.file_comments[i])
           THEN pub' = [pub EXCEPT !.k = @ + 1, !.warnings = @ \cup {i}]
           ELSE \E ok \in BOOLEAN :
                   pub' = [pub EXCEPT
                       !.k = @ + 1,
                       !.calls = Append(@, [op |-> "inline", i |-> i, ok |-> ok]),
                       !.errors = IF ok THEN @ ELSE @ \cup {"file_comment"}]
    /\ UNCHANGED <<resolverVars, parse, sync>>

\* unassign: true clears the assignees; a failure is logged
ClearAssignees ==
    /\ NextOp("unassign")
    /\ \E ok \in BOOLEAN :
          pub' = [pub EXCEPT
              !.k = @ + 1,
              !.calls = Append(@, [op |-> "unassign", i |-> 0, ok |-> ok]),
              !.errors = IF ok THEN @ ELSE @ \cup {"unassign"}]
    /\ UNCHANGED <<resolverVars, parse, sync>>

\* main() returns
FinishPublish ==
    /\ pub.pc = "steps"
    /\ pub.k = Len(Plan(pub.artifact))
    /\ pub' = [pub EXCEPT !.pc = "done"]
    /\ UNCHANGED <<resolverVars, parse, sync>>

\* the workflow runs the publisher once more on the artifact of a run that
\* ended well: a new process, and a PR that holds what the run before posted
RunAgain ==
    /\ pub.pc = "done"
    /\ pub.run < MaxRuns
    /\ pub' = [PublishStart(pub.artifact) EXCEPT
                  !.run = pub.run + 1,
                  !.remote = [comments |-> pub.remote.comments
                                            + CountCalls(pub.calls, "comment", TRUE),
                              inline |-> pub.remote.inline
                                          + CountCalls(pub.calls, "inline", TRUE),
                              refused |-> pub.remote.refused
                                           + CountCalls(pub.calls, "inline", FALSE)]]
    /\ UNCHANGED <<resolverVars, parse, sync>>

InitPublish ==
    /\ configFile = FileAbsent
    /\ thread = <<>>
    /\ out = Idle
    /\ invocations = NoInvocations
    /\ parse = NotParsed
    /\ sync = NotSynced
    /\ \E artifact \in Artifacts : pub = PublishStart(artifact)

NextPublish ==
    \/ ReadArtifact
    \/ ParseArtifact
    \/ PostStatus
    \/ SubmitFileComment
    \/ ClearAssignees
    \/ FinishPublish
    \/ RunAgain

SpecPublish == InitPublish /\ [][NextPublish]_vars

-----------------------------------------------------------------------------
(* C20 *)

\* positions of the calls of kind op in the run's calls
CallsOf(op) == {c \in DOMAIN pub.calls : pub.calls[c].op = op}

\* C20: the status comment is posted before every inline comment, and when
\* there is status text no inline comment is submitted without it; the
\* assignees are cleared after every inline comment, and only once every
\* entry of file_comments was submitted or discarded.
C20_StatusThenFilesThenUnassign ==
    /\ \A s \in CallsOf("comment"), f \in CallsOf("inline") : s < f
    /\ (CallsOf("inline") # {} /\ pub.artifact.status # ""
            => CallsOf("comment") # {})
    /\ \A f \in CallsOf("inline"), u \in CallsOf("unassign") : f < u
    /\ (CallsOf("unassign") # {}
            => \A i \in DOMAIN pub.artifact.file_comments :
                  \/ i \in pub.warnings
                  \/ \E f \in CallsOf("inline") : pub.calls[f].i = i)

\* status, two file comments of which the first failed, then the unassignment
C20_Witness ==
    /\ pub.pc = "done"
    /\ pub.calls = <<[op |-> "comment", i |-> 0, ok |-> TRUE],
                     [op |-> "inline", i |-> 1, ok |-> FALSE],
                     [op |-> "inline", i |-> 2, ok |-> TRUE],
                     [op |-> "unassign", i |-> 0, ok |-> TRUE]>>

-----------------------------------------------------------------------------
(* C21 *)

\* the publisher read an artifact it could parse
HasArtifact == pub.artifact.kind \in {"yaml", "md"}

\* C21: no run posts the status comment twice, and a run that ended well on
\* an artifact with status text posted it exactly once, with success,
\* whatever its file comments are and whatever became of them.
C21_StatusPostedExactlyOnce ==
    /\ Cardinality(CallsOf("comment")) <= 1
    /\ (pub.pc = "done" /\ HasArtifact /\ pub.artifact.status # ""
            => /\ Cardinality(CallsOf("comment")) = 1
               /\ \A c \in CallsOf("comment") : pub.calls[c].ok)

\* status text, one file comment without line and one whose submission
\* failed: one status comment
C21_Witness ==
    /\ pub.pc = "done"
    /\ HasArtifact /\ pub.artifact.status # ""
    /\ Len(pub.artifact.file_comments) = 2
    /\ pub.warnings = {1}
    /\ "file_comment" \in pub.errors
    /\ Cardinality(CallsOf("comment")) = 1

-----------------------------------------------------------------------------
(* C22 *)

\* entries of file_comments that lack a file, a line or a comment
InvalidEntries ==
    {i \in DOMAIN pub.artifact.file_comments :
        \/ pub.artifact.file_comments[i].file = ""
        \/ pub.artifact.file_comments[i].line = NoLine
        \/ pub.artifact.file_comments[i].comment = ""}

ValidEntries == (DOMAIN pub.artifact.file_comments) \ InvalidEntries

\* C22: a run that got through an artifact with k valid and m invalid file
\* comments ended with exit code 0, warned once for each invalid entry and
\* submitted each valid entry once, k inline comments in all; an error is
\* logged for file comments only when a submission was refused.
C22_InvalidEntriesDiscarded ==
    (pub.pc = "done" /\ HasArtifact)
    => /\ pub.exit = 0
       /\ pub.warnings = InvalidEntries
       /\ Cardinality(CallsOf("inline")) = Cardinality(ValidEntries)
       /\ \A i \in ValidEntries :
             Cardinality({c \in CallsOf("inline") : pub.calls[c].i = i}) = 1
       /\ ("file_comment" \in pub.errors
             => \E c \in CallsOf("inline") : ~pub.calls[c].ok)

\* two valid entries around one without line: two inline comments and one
\* warning
C22_Witness ==
    /\ pub.pc = "done" /\ HasArtifact
    /\ Len(pub.artifact.file_comments) = 3
    /\ InvalidEntries = {2}
    /\ pub.warnings = {2}
    /\ Cardinality(CallsOf("inline")) = 2
    /\ \A c \in CallsOf("inline") : pub.calls[c].ok

-----------------------------------------------------------------------------
(* C23 *)

\* C23: the publisher only dies of a malformed artifact or of a refused
\* status comment; a run in which the submission of a file comment or the
\* unassignment was refused has logged it, has gone on to submit every
\* valid file comment and, when unassign is set, to clear the assignees,
\* and has ended with exit code 0.
C23_ItemFailureIsolated ==
    /\ (pub.pc = "dead" => pub.errors \subseteq {"parse", "status"})
    /\ (pub.pc = "done" /\ HasArtifact
            => /\ pub.exit = 0
               /\ \A c \in DOMAIN pub.calls :
                     ~pub.calls[c].ok
                     => (IF pub.calls[c].op = "inline" THEN "file_comment"
                         ELSE pub.calls[c].op) \in pub.errors
               /\ \A i \in ValidEntries :
                     \E c \in CallsOf("inline") : pub.calls[c].i = i
               /\ (pub.artifact.unassign => CallsOf("unassign") # {}))

\* the first file comment was refused, the second was submitted all the
\* same, the unassignment was refused, and the run ended with exit code 0
C23_Witness ==
    /\ pub.pc = "done" /\ pub.exit = 0
    /\ Len(pub.calls) = 4
    /\ pub.calls[2] = [op |-> "inline", i |-> 1, ok |-> FALSE]
    /\ pub.calls[3] = [op |-> "inline", i |-> 2, ok |-> TRUE]
    /\ pub.calls[4] = [op |-> "unassign", i |-> 0, ok |-> FALSE]
    /\ pub.errors = {"file_comment", "unassign"}

-----------------------------------------------------------------------------
(* C24 *)

\* C24: a run on a malformed artifact never calls the hosting API and never
\* ends well: it has a step to take until it is dead, and it dies with a
\* non-zero exit code and the parse error logged.
C24_MalformedArtifactIsFatal ==
    pub.artifact = Malformed =>
        /\ pub.calls = <<>>
        /\ pub.pc # "done"
        /\ (pub.pc = "dead" => pub.exit # 0 /\ "parse" \in pub.errors)
        /\ (pub.pc # "dead" => ENABLED NextPublish)

\* the run on the malformed artifact is over
C24_Witness ==
    /\ pub.artifact = Malformed
    /\ pub.pc = "dead" /\ pub.exit = 1
    /\ pub.errors = {"parse"}
    /\ pub.calls = <<>>

-----------------------------------------------------------------------------
(* C25 *)

\* C25: a run on a free-text status file never submits an inline comment
\* and never touches the assignees; when it ends well it has posted one
\* comment, with success, whose body is the text of the file.
C25_LegacyStatusPostedAsOneComment ==
    pub.artifact = LegacyStatus =>
        /\ CallsOf("inline") = {} /\ CallsOf("unassign") = {}
        /\ (pub.pc = "done"
              => /\ Len(pub.calls) = 1
                 /\ pub.calls[1] = [op |-> "comment", i |-> 0, ok |-> TRUE]
                 /\ pub.statusBody = LegacyStatus.status
                 /\ pub.exit = 0)

\* the free-text status was posted and the run ended well
C25_Witness ==
    /\ pub.artifact = LegacyStatus
    /\ pub.pc = "done" /\ pub.posted
    /\ Len(pub.calls) = 1

-----------------------------------------------------------------------------
(* C26 *)

\* status comments and inline comments on the PR, and submissions of inline
\* comments that were refused, over all runs so far
StatusCommentsOnPr == pub.remote.comments + CountCalls(pub.calls, "comment", TRUE)
InlineCommentsOnPr == pub.remote.inline + CountCalls(pub.calls, "inline", TRUE)
InlineRefused == pub.remote.refused + CountCalls(pub.calls, "inline", FALSE)

\* C26: when the n-th run on an artifact has ended well, the PR holds n
\* status comments if the artifact has status text, and every valid file
\* comment was submitted n times: n copies of it are on the PR unless a
\* submission was refused.
C26_EveryRunPublishesAgain ==
    (pub.pc = "done" /\ HasArtifact)
    => /\ (pub.artifact.status # "" => StatusCommentsOnPr = pub.run)
       /\ InlineCommentsOnPr + InlineRefused
              = pub.run * Cardinality(ValidEntries)

\* the second run on an artifact with status text and one file comment left
\* two status comments and two inline comments on the PR
C26_Witness ==
    /\ pub.pc = "done" /\ pub.run = 2
    /\ HasArtifact /\ pub.artifact.status # ""
    /\ Len(pub.artifact.file_comments) = 1
    /\ StatusCommentsOnPr = 2
    /\ InlineCommentsOnPr = 2

-----------------------------------------------------------------------------
(* C30 *)

\* C30: a run whose status comment was refused, or whose request failed, is
\* dead with a non-zero exit code and has not reported the status as
\* posted; a run without status file makes no call, goes straight to its
\* end and leaves with exit code 0.
C30_StatusFailureIsFatal ==
    /\ ((\E c \in CallsOf("comment") : ~pub.calls[c].ok)
            => pub.pc = "dead" /\ pub.exit # 0 /\ ~pub.posted)
    /\ (pub.artifact = NoArtifact
            => /\ pub.calls = <<>>
               /\ pub.pc \in {"start", "done"}
               /\ pub.exit = 0
               /\ (pub.pc = "start" => ENABLED ReadArtifact))

\* the post of the free-text status was refused
C30_Witness ==
    /\ pub.artifact = LegacyStatus
    /\ pub.calls = <<[op |-> "comment", i |-> 0, ok |-> FALSE]>>
    /\ pub.pc = "dead" /\ pub.exit = 1

-----------------------------------------------------------------------------
(* C29 *)

\* C29: whenever a run has emitted its outputs, the emitted agent name is a
\* key of the registry and the emitted model id is the registry's entry for
\* that name.
C29_ModelIdBelongsToAgent ==
    out.emitted =>
        /\ out.agent_name \in DOMAIN AGENT_REGISTRY
        /\ out.model_id = AGENT_REGISTRY[out.agent_name]

-----------------------------------------------------------------------------
(* C28 *)

\* C28: after a run that emitted mode primary, the emitted agent name is the
\* primary agent of the config record as the run left it, the default agent
\* when there is no record.
C28_EmittedPrimaryIsStoredPrimary ==
    (out.emitted /\ out.agent_mode = "primary")
    => out.agent_name = PrimaryAgentOf(configFile)

-----------------------------------------------------------------------------
(* Two resolver invocations on one PR, not serialized.  Each is a process  *)
(* of its own with its own config object; they share the config file.     *)
(* fs.writeFileSync opens the file with O_TRUNC and then writes the bytes  *)
(* at offset 0; nothing makes the two system calls one step.               *)

RaceLogins == {"alice", "bob"}

\* Buffer.byteLength(JSON.stringify(config, null, 2)), less what is the same
\* for every record: the ISO timestamps have one length
ByteLength(config) == Len(config.primary_agent) + Len(config.updated_by)

\* a file that holds no JSON text: size bytes, none after O_TRUNC
Unparsable(size) == [kind |-> "garbage", size |-> size]

FileSize(file) ==
    IF file.kind = "json" THEN ByteLength(file.value)
    ELSE IF file.kind = "absent" THEN 0
    ELSE file.size

\* write(fd, bytes) at offset 0 of a file that was opened before: the bytes
\* replace the head of the file and what lies beyond them stays
WriteAtStart(file, config) ==
    IF ByteLength(config) >= FileSize(file) THEN FileJson(config)
    ELSE Unparsable(FileSize(file))

NoConfig == [primary_agent |-> Undefined, last_updated |-> Undefined,
             updated_by |-> Undefined]

InvocationStart(commentId, now) ==
    [pc |-> "read", commentId |-> commentId, now |-> now, config |-> NoConfig,
     order |-> 0, agent_name |-> Undefined]

\* line 154: const config = readAgentConfig()
ReadConfig ==
    \E w \in DOMAIN invocations :
        /\ invocations[w].pc = "read"
        /\ invocations' = [invocations EXCEPT
              ![w].pc = "resolve",
              ![w].config = readAgentConfig(configFile, invocations[w].now)]
        /\ UNCHANGED <<configFile, thread, out, parse, sync, pub>>

\* lines 164-193: the comment is fetched, its /agent directive is valid, and
\* the three fields of the config object are set
ResolveDirective ==
    \E w \in DOMAIN invocations :
        /\ invocations[w].pc = "resolve"
        /\ LET comment == thread[invocations[w].commentId]
               command == parseAgentCommand(comment.body)
           IN  /\ command.type = "agent" /\ IsValidAgent(command.agent)
               /\ invocations' = [invocations EXCEPT
                     ![w].pc = "open",
                     ![w].agent_name = command.agent,
                     ![w].config = [primary_agent |-> command.agent,
                                    last_updated |-> invocations[w].now,
                                    updated_by |-> comment.login]]
        /\ UNCHANGED <<configFile, thread, out, parse, sync, pub>>

\* line 98, first half of fs.writeFileSync: open(path, O_WRONLY|O_CREAT|O_TRUNC)
OpenConfigFile ==
    \E w \in DOMAIN invocations :
        /\ invocations[w].pc = "open"
        /\ configFile' = Unparsable(0)
        /\ invocations' = [invocations EXCEPT ![w].pc = "write"]
        /\ UNCHANGED <<thread, out, parse, sync, pub>>

\* line 98, second half of fs.writeFileSync: write and close
WriteConfigFile ==
    \E w \in DOMAIN invocations :
        /\ invocations[w].pc = "write"
        /\ configFile' = WriteAtStart(configFile, invocations[w].config)
        /\ invocations' = [invocations EXCEPT
              ![w].pc = "done",
              ![w].order = 1 + Cardinality({v \in DOMAIN invocations :
                                              invocations[v].pc = "done"})]
        /\ UNCHANGED <<thread, out, parse, sync, pub>>

\* two comments with valid /agent directives, one invocation for each
InitRace ==
    /\ configFile = FileAbsent
    /\ out = Idle
    /\ parse = NotParsed
    /\ sync = NotSynced
    /\ pub = NotPublished
    /\ \E a1 \in DOMAIN AGENT_REGISTRY, a2 \in DOMAIN AGENT_REGISTRY,
          l1 \in RaceLogins, l2 \in RaceLogins :
          thread = <<[body |-> <<"/agent", a1>>, login |-> l1],
                     [body |-> <<"/agent", a2>>, login |-> l2]>>
    /\ invocations = <<InvocationStart(1, "T1"), InvocationStart(2, "T2")>>

NextRace ==
    \/ ReadConfig
    \/ ResolveDirective
    \/ OpenConfigFile
    \/ WriteConfigFile

SpecRace == InitRace /\ [][NextRace]_vars

-----------------------------------------------------------------------------
(* C27 *)

\* C27: when both invocations are through, the config file holds the whole
\* record of the invocation that wrote last: its target, its timestamp and
\* the author of its comment.
C27_LastWriterWins ==
    (\A w \in DOMAIN invocations : invocations[w].pc = "done")
    => \E w \in DOMAIN invocations :
          /\ invocations[w].order = Cardinality(DOMAIN invocations)
          /\ configFile = FileJson(invocations[w].config)

=============================================================================
